---- MODULE Spec2Model ----
(***************************************************************************)
(* Model of the gene table panels of lps_dash (src/components.py,          *)
(* src/app.py): the score stores built by _read_scores, the rendered       *)
(* title / dropdown / table of each panel, and the two Dash callbacks      *)
(* update_title and update_table that GeneTable.register installs.         *)
(*                                                                         *)
(* Strings are modelled as sequences of whitespace-free words, so that     *)
(* str.split() is the identity on the word sequence and an f-string is a   *)
(* concatenation.  Scores are integers in thousandths.  A pandas frame     *)
(* with a reset index is a sequence; rank r is element r + 1.              *)
(***************************************************************************)
EXTENDS Integers, Sequences, FiniteSets, TLC

\* number of genes (rows per tissue) in the score files
NGenes == 12

\* GeneTable.ngenes: rows shown at a time
ngenes == 5

Panels == {"global", "tissue"}

\* names occurring in the input files
BM == <<"BM">>
Sp == <<"Sp">>
LNax == <<"LN", "ax">>
k1 == <<"k1">>
k2 == <<"k2">>
k3 == <<"k3">>
None == <<>>

\* the (tissue, topic) pairs the timecourse figure carries as customdata
ClickTissues == {BM, Sp, LNax}
ClickTopics == {k1, k2, k3}

\* the topic columns of both score files
score_columns == <<k1, k2>>

Genes == 1..NGenes

(***************************************************************************)
(* Input files.  A column of a score file is described by a profile: how   *)
(* many genes score above zero, how many below, and whether two of the     *)
(* positive genes share a score.  Slot scatters the genes so that the      *)
(* file order is not the ranked order.                                     *)
(***************************************************************************)
Slot(i) == IF i % 2 = 1 THEN (i + 1) \div 2 ELSE NGenes + 1 - (i \div 2)

Profile(np, nn, t) == [npos |-> np, nneg |-> nn, tie |-> t]

ColumnScore(prof, i) ==
    LET r == Slot(i) IN
    IF r <= prof.npos THEN 4 * (IF prof.tie /\ r = 2 THEN 1 ELSE r)
    ELSE IF r > NGenes - prof.nneg THEN -4 * (NGenes + 1 - r)
    ELSE 0

\* a global score file: one row per gene, columns gene, k1, k2
GlobalFile(p1, p2) ==
    [i \in Genes |->
        [gene |-> i,
         score |-> [c \in {k1, k2} |-> ColumnScore(IF c = k1 THEN p1 ELSE p2, i)]]]

\* a tissue score file: one row per (tissue, gene), columns tissue, gene, k1, k2
TissueProfile(tissue, c) ==
    IF tissue = BM
    THEN IF c = k1 THEN Profile(11, 0, FALSE) ELSE Profile(0, 7, FALSE)
    ELSE IF tissue = Sp
    THEN IF c = k1 THEN Profile(2, 6, FALSE) ELSE Profile(5, 5, TRUE)
    ELSE Profile(6, 6, FALSE)

TissueFile(tissues) ==
    [n \in 1..(Len(tissues) * NGenes) |->
        LET tissue == tissues[((n - 1) \div NGenes) + 1]
            i == ((n - 1) % NGenes) + 1
        IN [tissue |-> tissue,
            gene |-> i,
            score |-> [c \in {k1, k2} |-> ColumnScore(TissueProfile(tissue, c), i)]]]

\* the gene index and the tissues of the cpm file
CpmFile(genes, tissues) == [genes |-> genes, tissues |-> tissues]

\* the input files of one run: what --global_z, --tissue_z and --cpm name
DatasetNames == {"lps", "lps_sparse", "lps_short"}

Datasets ==
    [d \in DatasetNames |->
        IF d = "lps"
        THEN [global |-> GlobalFile(Profile(7, 5, FALSE), Profile(3, 0, FALSE)),
              tissue |-> TissueFile(<<Sp, BM, LNax>>),
              cpm |-> CpmFile(Genes, {BM, Sp, LNax})]
        ELSE IF d = "lps_sparse"
        THEN [global |-> GlobalFile(Profile(12, 0, TRUE), Profile(7, 2, FALSE)),
              tissue |-> TissueFile(<<BM>>),
              cpm |-> CpmFile(Genes \ {1}, {BM, Sp})]
        ELSE [global |-> GlobalFile(Profile(3, 2, FALSE), Profile(6, 2, FALSE)),
              tissue |-> TissueFile(<<BM>>),
              cpm |-> CpmFile(Genes, {BM, Sp, LNax})]]

\* pd.read_csv(score_path) for the score file of panel self
read_csv(paths, self) == Datasets[paths][self]

VARIABLES
    phase,        \* "init" before MainApp._set_layout, then "running" or "failed"
    args,         \* the paths given on the command line (the dataset they name)
    cpm,          \* CPMPlotter.cpm: its gene index and its tissues
    pos_scores,   \* per panel: GeneTable.pos_scores
    neg_scores,   \* per panel: GeneTable.neg_scores
    title,        \* per title id: children of the title Div (the H2 text, as words)
    dropdown,     \* per dropdown id: value of the neg-pos dropdown
    table,        \* per table id: children of the table Div (the Tbody rows)
    err,          \* per panel: what the last update_table call raised, or "none"
    ev,           \* the last event: its kind and the panel it was addressed to
    str_series,   \* the series of labels given to _order_strings
    ordered       \* the categorical series _order_strings returned

vars == <<phase, args, cpm, pos_scores, neg_scores,
          title, dropdown, table, err, ev, str_series, ordered>>

(***************************************************************************)
(* _read_scores                                                            *)
(***************************************************************************)
\* DataFrame.sort_values on one column.  pandas' default sort is not
\* stable: rows with equal scores come out in file order ("stable") or in
\* the opposite order ("reversed").
RECURSIVE insert_sorted(_, _, _, _)
insert_sorted(r, s, ascending, ties) ==
    IF s = <<>> THEN <<r>>
    ELSE LET h == Head(s)
             first == \/ (ascending /\ r.score < h.score)
                      \/ (~ascending /\ r.score > h.score)
                      \/ (r.score = h.score /\ ties = "reversed")
         IN IF first THEN <<r>> \o s
            ELSE <<h>> \o insert_sorted(r, Tail(s), ascending, ties)

RECURSIVE sort_values(_, _, _)
sort_values(rows, ascending, ties) ==
    IF rows = <<>> THEN <<>>
    ELSE insert_sorted(rows[Len(rows)],
                       sort_values(SubSeq(rows, 1, Len(rows) - 1), ascending, ties),
                       ascending, ties)

\* score_mat[['gene', topic]]
topic_scores(rows, topic) ==
    [n \in 1..Len(rows) |-> [gene |-> rows[n].gene, score |-> rows[n].score[topic]]]

IsPos(r) == r.score > 0
IsNeg(r) == r.score < 0

\* (mutant of pos_topic) the positive rows sorted ascending
pos_topic_ascending(rows, ties) == sort_values(SelectSeq(rows, IsPos), TRUE, ties)

pos_topic(rows, ties) == sort_values(SelectSeq(rows, IsPos), FALSE, ties)
neg_topic(rows, ties) == sort_values(SelectSeq(rows, IsNeg), TRUE, ties)

Columns == {score_columns[n] : n \in 1..Len(score_columns)}

\* GeneTable._read_scores: keyed by topic
GeneTable_read_scores(mat, ties) ==
    [pos |-> [topic \in Columns |-> pos_topic(topic_scores(mat, topic), ties)],
     neg |-> [topic \in Columns |-> neg_topic(topic_scores(mat, topic), ties)]]

\* score_mat[['tissue', 'gene', topic]]
tissue_topic_scores(rows, topic) ==
    [n \in 1..Len(rows) |->
        [tissue |-> rows[n].tissue, gene |-> rows[n].gene,
         score |-> rows[n].score[topic]]]

\* np.unique(score_mat['tissue'])
unique_tissues(mat) == {mat[n].tissue : n \in 1..Len(mat)}

\* (mutant of tissue_rows) the rows of every tissue
tissue_rows_unfiltered(mat, tissue) == mat

\* topic_scores[topic_scores['tissue'] == tissue]
tissue_rows(mat, tissue) ==
    LET Is(r) == r.tissue = tissue IN SelectSeq(mat, Is)

\* TissueGeneTable._read_scores: keyed by (tissue, topic)
TissueGeneTable_read_scores(mat, ties) ==
    LET keys == unique_tissues(mat) \X Columns IN
    [pos |-> [k \in keys |->
                pos_topic(tissue_rows(tissue_topic_scores(mat, k[2]), k[1]), ties)],
     neg |-> [k \in keys |->
                neg_topic(tissue_rows(tissue_topic_scores(mat, k[2]), k[1]), ties)]]

read_scores(self, mat, ties) ==
    IF self = "global" THEN GeneTable_read_scores(mat, ties)
    ELSE TissueGeneTable_read_scores(mat, ties)


(***************************************************************************)
(* Rendering.  A call that can raise returns [exc, val]: exc is the name   *)
(* of the exception, "none" when the call returns val.                     *)
(***************************************************************************)
Ok(v) == [exc |-> "none", val |-> v]
Raise(e) == [exc |-> e, val |-> <<>>]

\* GeneTable._get_title / TissueGeneTable._get_title: the f-string, as words
get_title(self, tissue_topic) ==
    (IF self = "global" THEN <<"Global", "Correlation:">>
     ELSE <<"Intra-Tissue", "Correlation:">>)
    \o tissue_topic[2] \o <<"in">> \o tissue_topic[1]

\* GeneTable._tissue_topic_from_title: split[-1] and split[-3]
tissue_topic_from_title(t) ==
    LET split == t IN <<<<split[Len(split)]>>, <<split[Len(split) - 2]>>>>

\* (mutant of scores_key) the global key depends on the tissue
scores_key_tissue_dependent(self, tissue_topic) ==
    IF self = "global"
    THEN (IF tissue_topic[1] = BM THEN tissue_topic[2] ELSE score_columns[1])
    ELSE tissue_topic

\* GeneTable._get_scores / TissueGeneTable._get_scores
scores_key(self, tissue_topic) ==
    IF self = "global" THEN tissue_topic[2] ELSE tissue_topic

get_scores(self, tissue_topic, pos) ==
    LET store == IF pos THEN pos_scores[self] ELSE neg_scores[self]
        key == scores_key(self, tissue_topic)
    IN IF key \in DOMAIN store THEN Ok(store[key]) ELSE Raise("KeyError")

\* CPMPlotter.line_plot: cpm.loc[gene] needs the gene; min() of the y values
\* needs at least one row left after the tissue filter
line_plot(gene, tissue) ==
    IF gene \notin cpm.genes THEN Raise("KeyError")
    ELSE IF tissue # None /\ tissue \notin cpm.tissues THEN Raise("ValueError")
    ELSE Ok([gene |-> gene, tissue |-> tissue])

\* '{:.2f}'.format(score): hundredths, with the sign kept
format_score(score) ==
    LET a == IF score < 0 THEN -score ELSE score
        q == a \div 10
        rem == a % 10
        up == rem > 5 \/ (rem = 5 /\ q % 2 = 1)
    IN [minus |-> score < 0, hundredths |-> IF up THEN q + 1 ELSE q]

\* (mutant of table_row) a row of the global panel without the tissue chart
table_row_global_one_chart(self, tissue_topic, rank, pos) ==
    LET got == get_scores(self, tissue_topic, pos)
        scores == got.val
    IN IF got.exc # "none" THEN got
       ELSE IF rank < 0 \/ rank >= Len(scores) THEN Raise("KeyError")
       ELSE LET gene == scores[rank + 1].gene
                score == scores[rank + 1].score
                all_plot == line_plot(gene, None)
                tissue_plot == line_plot(gene, tissue_topic[1])
            IN IF all_plot.exc # "none" THEN all_plot
               ELSE IF self = "global"
               THEN Ok([rank |-> rank,
                        gene |-> gene,
                        score |-> format_score(score),
                        all_plot |-> all_plot.val])
               ELSE IF tissue_plot.exc # "none" THEN tissue_plot
               ELSE Ok([rank |-> rank,
                        gene |-> gene,
                        score |-> format_score(score),
                        all_plot |-> all_plot.val,
                        tissue_plot |-> tissue_plot.val])

\* GeneTable._table_row
table_row(self, tissue_topic, rank, pos) ==
    LET got == get_scores(self, tissue_topic, pos)
        scores == got.val
    IN IF got.exc # "none" THEN got
       ELSE IF rank < 0 \/ rank >= Len(scores) THEN Raise("KeyError")
       ELSE LET gene == scores[rank + 1].gene
                score == scores[rank + 1].score
                all_plot == line_plot(gene, None)
                tissue_plot == line_plot(gene, tissue_topic[1])
            IN IF all_plot.exc # "none" THEN all_plot
               ELSE IF tissue_plot.exc # "none" THEN tissue_plot
               ELSE Ok([rank |-> rank,
                        gene |-> gene,
                        score |-> format_score(score),
                        all_plot |-> all_plot.val,
                        tissue_plot |-> tissue_plot.val])

\* (mutant of clamp_rank) the upper clamp one row too low
clamp_rank_off_by_one(start_rank, n) ==
    LET lo == IF start_rank < 0 THEN 0 ELSE start_rank
    IN IF lo > (n - 1) - ngenes THEN (n - 1) - ngenes ELSE lo

\* (mutant of clamp_rank) no clamp at rank 0
clamp_rank_no_floor(start_rank, n) ==
    IF start_rank > (n - 1) - (ngenes - 1) THEN (n - 1) - (ngenes - 1) ELSE start_rank

\* (mutant of clamp_rank) no clamp at the end of the list
clamp_rank_no_ceiling(start_rank, n) == IF start_rank < 0 THEN 0 ELSE start_rank

\* the two clamps of GeneTable._table_body; max(scores.index) is n - 1
clamp_rank(start_rank, n) ==
    LET lo == IF start_rank < 0 THEN 0 ELSE start_rank
    IN IF lo > (n - 1) - (ngenes - 1) THEN (n - 1) - (ngenes - 1) ELSE lo

\* GeneTable._table_body
table_body(self, tissue_topic, start_rank, pos) ==
    LET got == get_scores(self, tissue_topic, pos)
        scores == got.val
    IN IF got.exc # "none" THEN got
       ELSE IF Len(scores) = 0 THEN Raise("ValueError")
       ELSE LET first == clamp_rank(start_rank, Len(scores))
                rows == [n \in 1..ngenes |->
                            table_row(self, tissue_topic, first + n - 1, pos)]
                bad == {n \in 1..ngenes : rows[n].exc # "none"}
            IN IF bad # {}
               THEN rows[CHOOSE n \in bad : \A m \in bad : n <= m]
               ELSE Ok([n \in 1..ngenes |-> rows[n].val])

\* GeneTable._get_table (the header is constant and left out)
get_table(self, tissue_topic, start_rank, pos) ==
    table_body(self, tissue_topic, start_rank, pos)

\* GeneTable._rank_from_table
rank_from_table(t) == t[1].rank

\* GeneTable.ids and the ids TissueGeneTable.__init__ puts in their place;
\* score_name is 'Z' for both tables (MainApp._set_layout)
GeneTable_ids ==
    [table |-> "Z-gene-table",
     title |-> "Z-gene-table-title",
     forward_button |-> "Z-forward-button",
     back_button |-> "Z-back-button",
     dropdown |-> "Z-neg-pos-dropdown"]

\* (mutant of TissueGeneTable_ids) the ids of the parent class kept
TissueGeneTable_ids_inherited == GeneTable_ids

TissueGeneTable_ids ==
    [table |-> "tissue-Z-gene-table",
     title |-> "tissue-Z-gene-table-title",
     forward_button |-> "tissue-Z-forward-button",
     back_button |-> "tissue-Z-back-button",
     dropdown |-> "tissue-Z-neg-pos-dropdown"]

ids(self) == IF self = "global" THEN GeneTable_ids ELSE TissueGeneTable_ids

\* (mutant of update_table) the positive list whatever the dropdown holds
update_table_ignores_dropdown(self, trigger_id, title_, dropdown_, table_) ==
    LET tissue_topic == tissue_topic_from_title(title_)
        pos == TRUE
        start_rank == rank_from_table(table_)
    IN IF trigger_id \in {ids(self).title, ids(self).dropdown}
       THEN get_table(self, tissue_topic, 0, pos)
       ELSE IF trigger_id = ids(self).forward_button
       THEN get_table(self, tissue_topic, start_rank + ngenes, pos)
       ELSE get_table(self, tissue_topic, start_rank - ngenes, pos)

\* the update_table callback of panel self
update_table(self, trigger_id, title_, dropdown_, table_) ==
    LET tissue_topic == tissue_topic_from_title(title_)
        pos == dropdown_ = "pos"
        start_rank == rank_from_table(table_)
    IN IF trigger_id \in {ids(self).title, ids(self).dropdown}
       THEN get_table(self, tissue_topic, 0, pos)
       ELSE IF trigger_id = ids(self).forward_button
       THEN get_table(self, tissue_topic, start_rank + ngenes, pos)
       ELSE get_table(self, tissue_topic, start_rank - ngenes, pos)

\* the update_title callback of panel self
update_title(self, customdata) == get_title(self, customdata)

(***************************************************************************)
(* _order_strings.  A label is a sequence of characters: a letter and the  *)
(* decimal text of an integer.  The result is the ordered categorical:     *)
(* its categories in order, and per input label the position of its        *)
(* category (its code), NaN when the label is none of the categories.      *)
(***************************************************************************)
\* labels in a series
MaxSeries == 3

Digits == <<"0", "1", "2", "3", "4", "5", "6", "7", "8", "9">>
Letters == {"d", "h"}
IntegerTexts == {<<"2">>, <<"7">>, <<"1", "0">>, <<"0", "7">>}
Labels == {<<c>> \o text : c \in Letters, text \in IntegerTexts}

RECURSIVE SeriesOfLen(_)
SeriesOfLen(n) ==
    IF n = 0 THEN {<<>>}
    ELSE {s \o <<l>> : s \in SeriesOfLen(n - 1), l \in Labels}

Series == UNION {SeriesOfLen(n) : n \in 1..MaxSeries}

\* the code pandas gives a value that is none of the categories
NaN == -1

\* int(text)
RECURSIVE to_int(_)
to_int(text) ==
    IF text = <<>> THEN 0
    ELSE 10 * to_int(SubSeq(text, 1, Len(text) - 1))
         + ((CHOOSE n \in 1..10 : Digits[n] = text[Len(text)]) - 1)

\* str(n)
RECURSIVE to_str(_)
to_str(n) ==
    IF n < 10 THEN <<Digits[n + 1]>>
    ELSE to_str(n \div 10) \o <<Digits[(n % 10) + 1]>>

\* np.unique: the distinct values in ascending order
RECURSIVE np_unique(_)
np_unique(values) ==
    IF values = {} THEN <<>>
    ELSE LET least == CHOOSE v \in values : \A w \in values : v <= w
         IN <<least>> \o np_unique(values \ {least})

order_strings(series) ==
    LET num_series == [n \in 1..Len(series) |-> to_int(Tail(series[n]))]
        unique_num == np_unique({num_series[n] : n \in 1..Len(series)})
        c == series[1][1]
        unique_str == [k \in 1..Len(unique_num) |-> <<c>> \o to_str(unique_num[k])]
    IN [categories |-> unique_str,
        codes |-> [n \in 1..Len(series) |->
                     IF \E k \in 1..Len(unique_str) : unique_str[k] = series[n]
                     THEN CHOOSE k \in 1..Len(unique_str) : unique_str[k] = series[n]
                     ELSE NaN]]

\* no series ordered yet
Unordered == [categories |-> <<>>, codes |-> <<>>]

(***************************************************************************)
(* State machine                                                           *)
(***************************************************************************)
Event(kind, self) == [kind |-> kind, panel |-> self]

TitleIds == {ids(p).title : p \in Panels}
DropdownIds == {ids(p).dropdown : p \in Panels}
TableIds == {ids(p).table : p \in Panels}

\* the input files named on the command line
Init ==
    /\ phase = "init"
    /\ args \in DatasetNames
    /\ cpm = CpmFile({}, {})
    /\ pos_scores = [p \in Panels |-> <<>>]
    /\ neg_scores = [p \in Panels |-> <<>>]
    /\ title = [i \in TitleIds |-> <<>>]
    /\ dropdown = [i \in DropdownIds |-> "pos"]
    /\ table = [i \in TableIds |-> <<>>]
    /\ err = [p \in Panels |-> "none"]
    /\ ev = Event("none", "all")
    /\ str_series = <<>>
    /\ ordered = Unordered

\* GeneTable.get_component: the title and the first page for ('BM', 'k1')
get_component(self) ==
    LET first == get_table(self, <<BM, k1>>, 0, TRUE)
    IN IF first.exc # "none" THEN first
       ELSE Ok([title |-> get_title(self, <<BM, k1>>), table |-> first.val])

\* MainApp._set_layout: both tables are constructed (the score files are
\* read, the dropdown is set to 'pos'), the layout is built with
\* get_component, the callbacks are registered.  An exception ends the
\* program before it serves anything.
SetLayout ==
    /\ phase = "init"
    /\ \E ties \in {"stable", "reversed"} :
        /\ pos_scores' = [p \in Panels |-> read_scores(p, read_csv(args, p), ties).pos]
        /\ neg_scores' = [p \in Panels |-> read_scores(p, read_csv(args, p), ties).neg]
    /\ cpm' = Datasets[args].cpm
    /\ UNCHANGED <<args, str_series, ordered>>
    /\ ev' = Event("layout", "all")
    /\ dropdown' = [i \in DropdownIds |-> "pos"]
    /\ LET component == [p \in Panels |-> get_component(p)'] IN
       IF \A p \in Panels : component[p].exc = "none"
       THEN /\ phase' = "running"
            /\ title' = [i \in TitleIds |->
                  component[CHOOSE p \in Panels : ids(p).title = i].val.title]
            /\ table' = [i \in TableIds |->
                  component[CHOOSE p \in Panels : ids(p).table = i].val.table]
            /\ err' = err
       ELSE /\ phase' = "failed"
            /\ err' = [p \in Panels |-> component[p].exc]
            /\ UNCHANGED <<title, table>>

\* One call of update_table of panel self with the layout as it is after
\* the triggering change: the returned table goes to the table Div; when
\* the callback raises, the Div keeps what it had.
RunUpdateTable(self, trigger_id) ==
    LET result == update_table(self, trigger_id, title'[ids(self).title],
                               dropdown'[ids(self).dropdown],
                               table[ids(self).table])
    IN [exc |-> result.exc,
        table |-> IF result.exc = "none" THEN result.val
                  ELSE table[ids(self).table]]

\* a click on the timecourse figure: update_title of every panel, then,
\* triggered by the new title, update_table of every panel
TimecourseClick(customdata) ==
    /\ phase = "running"
    /\ title' = [i \in TitleIds |->
          update_title(CHOOSE p \in Panels : ids(p).title = i, customdata)]
    /\ UNCHANGED <<phase, args, cpm, pos_scores, neg_scores, dropdown>>
    /\ UNCHANGED <<str_series, ordered>>
    /\ LET run == [p \in Panels |-> RunUpdateTable(p, ids(p).title)] IN
        /\ table' = [i \in TableIds |->
                        run[CHOOSE p \in Panels : ids(p).table = i].table]
        /\ err' = [p \in Panels |-> run[p].exc]
    /\ ev' = Event("click", "all")

\* the dropdown of panel self is set to the other of its two options
DropdownChange(self, value) ==
    /\ phase = "running"
    /\ value # dropdown[ids(self).dropdown]
    /\ dropdown' = [dropdown EXCEPT ![ids(self).dropdown] = value]
    /\ UNCHANGED <<phase, args, cpm, pos_scores, neg_scores, title>>
    /\ UNCHANGED <<str_series, ordered>>
    /\ LET run == RunUpdateTable(self, ids(self).dropdown) IN
        /\ table' = [table EXCEPT ![ids(self).table] = run.table]
        /\ err' = [err EXCEPT ![self] = run.exc]
    /\ ev' = Event("dropdown", self)

\* a click on 'Next Genes' or 'Previous Genes' of panel self
ButtonClick(self, button_id, kind) ==
    /\ phase = "running"
    /\ UNCHANGED <<phase, args, cpm, pos_scores, neg_scores, title, dropdown>>
    /\ UNCHANGED <<str_series, ordered>>
    /\ LET run == RunUpdateTable(self, button_id) IN
        /\ table' = [table EXCEPT ![ids(self).table] = run.table]
        /\ err' = [err EXCEPT ![self] = run.exc]
    /\ ev' = Event(kind, self)

ForwardClick(self) == ButtonClick(self, ids(self).forward_button, "forward")
BackClick(self) == ButtonClick(self, ids(self).back_button, "back")

Next ==
    \/ SetLayout
    \/ \E customdata \in ClickTissues \X ClickTopics : TimecourseClick(customdata)
    \/ \E self \in Panels, value \in {"pos", "neg"} : DropdownChange(self, value)
    \/ \E self \in Panels : ForwardClick(self)
    \/ \E self \in Panels : BackClick(self)

Spec == Init /\ [][Next]_vars

\* _order_strings on its own: a series of labels is drawn, then ordered
OrderInit ==
    /\ str_series \in Series
    /\ ordered = Unordered
    /\ phase = "init"
    /\ args = "lps"
    /\ cpm = CpmFile({}, {})
    /\ pos_scores = [p \in Panels |-> <<>>]
    /\ neg_scores = [p \in Panels |-> <<>>]
    /\ title = [i \in TitleIds |-> <<>>]
    /\ dropdown = [i \in DropdownIds |-> "pos"]
    /\ table = [i \in TableIds |-> <<>>]
    /\ err = [p \in Panels |-> "none"]
    /\ ev = Event("none", "all")

OrderStrings ==
    /\ ordered = Unordered
    /\ ordered' = order_strings(str_series)
    /\ ev' = Event("order", "all")
    /\ UNCHANGED <<phase, args, cpm, pos_scores, neg_scores, title, dropdown,
                   table, err, str_series>>

OrderNext == OrderStrings

OrderSpec == OrderInit /\ [][OrderNext]_vars


(***************************************************************************)
(* The selection of a panel, as the callbacks derive it from the layout    *)
(***************************************************************************)
Title(p) == title[ids(p).title]
Dropdown(p) == dropdown[ids(p).dropdown]
Table(p) == table[ids(p).table]

Key(p) == tissue_topic_from_title(Title(p))
Pos(p) == Dropdown(p) = "pos"
KeyValid(p) == get_scores(p, Key(p), Pos(p)).exc = "none"
RankedList(p) == get_scores(p, Key(p), Pos(p)).val
N(p) == Len(RankedList(p))
pageStart(p) == rank_from_table(Table(p))
Ranks(p) == [n \in 1..Len(Table(p)) |-> Table(p)[n].rank]

Max(a, b) == IF a >= b THEN a ELSE b

\* every gene of the score files and every tissue of the timecourse has
\* expression data, so that no chart of a row can fail
DataConsistent == Genes \subseteq cpm.genes /\ ClickTissues \subseteq cpm.tissues

\* the charts of the rows with the ranks lo..hi of the current list can be drawn
ChartsOk(p, lo, hi) ==
    \A r \in lo..hi :
        /\ line_plot(RankedList(p)[r + 1].gene, None).exc = "none"
        /\ line_plot(RankedList(p)[r + 1].gene, Key(p)[1]).exc = "none"

\* C1: after page-forward and page-back events the rank of the first
\* rendered row lies in 0..max(0, N - ngenes), N the length of the ranked
\* list of the panel's key and sign, also when N < ngenes.
C1_PageStartInRange ==
    (phase = "running" /\ DataConsistent) =>
        \A p \in Panels :
            (ev.kind \in {"forward", "back"} /\ ev.panel = p /\ KeyValid(p)) =>
                /\ 0 <= pageStart(p)
                /\ pageStart(p) <= Max(0, N(p) - ngenes)

\* C2: a timecourse click whose key is not in a panel's score store leaves
\* the panel's title, dropdown and table as they were and raises nothing.
C2_UnknownKeyIsNoOp ==
    [][\A customdata \in ClickTissues \X ClickTopics : \A p \in Panels :
          (/\ ev' = Event("click", "all")
           /\ TimecourseClick(customdata)
           /\ scores_key(p, customdata) \notin DOMAIN pos_scores[p])
          => /\ Title(p)' = Title(p)
             /\ Dropdown(p)' = Dropdown(p)
             /\ Table(p)' = Table(p)
             /\ err'[p] = "none"]_vars

\* C3: every event completes without raising.
C3_EveryEventCompletes ==
    (phase = "running" /\ DataConsistent) => \A p \in Panels : err[p] = "none"

\* C4: when the ranked list of the panel's key and sign has N < ngenes
\* entries, the page shows exactly the ranks 0..N-1 (none when N = 0) and
\* nothing was raised.
C4_ShortListRenders ==
    (phase = "running" /\ DataConsistent) =>
        \A p \in Panels :
            (KeyValid(p) /\ N(p) < ngenes) =>
                /\ err[p] = "none"
                /\ Ranks(p) = [n \in 1..N(p) |-> n - 1]


\* C5 as stated: with N = 7 and pageStart = 0 a page-forward gives
\* pageStart = 5 and a page of the two ranks 5 and 6.
C5_ForwardShowsLastTwo ==
    [][\A p \in Panels :
          (ev' = Event("forward", p) /\ ForwardClick(p)
           /\ KeyValid(p) /\ N(p) = 7 /\ pageStart(p) = 0 /\ ChartsOk(p, 0, 6))
          => (pageStart(p)' = 5 /\ Ranks(p)' = <<5, 6>>)]_vars

\* C5 amended: with N = 7 a page-forward from pageStart = 0 gives
\* pageStart = 2 and the five rows of the ranks 2..6 of the list, and a
\* further page-forward leaves that page; when a chart of those rows cannot
\* be drawn the callback raises and the page stays as it was.
C5_ForwardClampsToLastFive ==
    [][\A p \in Panels :
          (ev' = Event("forward", p) /\ ForwardClick(p)
           /\ KeyValid(p) /\ N(p) = 7 /\ pageStart(p) \in {0, 2})
          => IF ChartsOk(p, 2, 6)
             THEN /\ err'[p] = "none"
                  /\ pageStart(p)' = 2
                  /\ Ranks(p)' = <<2, 3, 4, 5, 6>>
                  /\ \A n \in 1..ngenes :
                        Table(p)'[n].gene = RankedList(p)[n + 2].gene
             ELSE /\ err'[p] # "none"
                  /\ Table(p)' = Table(p)]_vars

C5_Witness ==
    \E p \in Panels :
        /\ phase = "running"
        /\ ev = Event("forward", p)
        /\ KeyValid(p) /\ N(p) = 7
        /\ err[p] = "none"
        /\ Ranks(p) = <<2, 3, 4, 5, 6>>

\* C6: a timecourse click with a key of the panel's store sets the panel's
\* key to it, keeps the sign and renders the page starting at rank 0.
\* (Checked for the one-word tissues of consistent data.)
C6_ValidSelectionResets ==
    [][\A customdata \in ClickTissues \X ClickTopics : \A p \in Panels :
          (/\ ev' = Event("click", "all")
           /\ TimecourseClick(customdata)
           /\ DataConsistent
           /\ Len(customdata[1]) = 1
           /\ scores_key(p, customdata) \in DOMAIN pos_scores[p])
          => /\ Key(p)' = customdata
             /\ Pos(p)' = Pos(p)
             /\ err'[p] = "none"
             /\ pageStart(p)' = 0]_vars

\* C7: a change of the dropdown sets the sign to the chosen value and
\* resets pageStart to 0.
C7_SignChangeResets ==
    [][\A p \in Panels : \A value \in {"pos", "neg"} :
          (ev' = Event("dropdown", p) /\ DropdownChange(p, value)
           /\ DataConsistent /\ KeyValid(p))
          => (Dropdown(p)' = value /\ pageStart(p)' = 0)]_vars

\* the table of panel p after a click on its 'Previous Genes' button
AfterBack(p) ==
    LET result == update_table(p, ids(p).back_button, Title(p), Dropdown(p), Table(p))
    IN IF result.exc = "none" THEN result.val ELSE Table(p)

\* the table of panel p is the render of its list from rank 0
FirstPageShown(p) == get_table(p, Key(p), 0, Pos(p)) = Ok(Table(p))

\* C8: on a list with N > ngenes showing its first page, a page-forward
\* followed by a page-back renders that first page again.
C8_ForwardBackRoundTrip ==
    [][\A p \in Panels :
          /\ (ev' = Event("forward", p) /\ ForwardClick(p)
              /\ KeyValid(p) /\ N(p) > ngenes /\ FirstPageShown(p))
                => AfterBack(p)' = Table(p)
          /\ (ev' = Event("back", p) /\ BackClick(p))
                => Table(p)' = AfterBack(p)]_vars

C8_Witness ==
    \E p \in Panels :
        /\ phase = "running"
        /\ ev = Event("back", p)
        /\ err[p] = "none"
        /\ KeyValid(p) /\ N(p) > 2 * ngenes
        /\ FirstPageShown(p)

\* the rows of the score file that belong to a key of panel p
FileRows(p, key) ==
    IF p = "global" THEN topic_scores(read_csv(args, p), key)
    ELSE tissue_rows(tissue_topic_scores(read_csv(args, p), key[2]), key[1])

RowSet(rows) == {rows[n] : n \in 1..Len(rows)}

\* the scenario of the specification: A: 3.0, B: -1.0, C: 5.0, D: 0.0
\* (genes 1..4, scores in thousandths)
ExampleFile ==
    [i \in 1..4 |->
        [gene |-> i,
         score |-> [c \in {k1, k2} |-> <<3000, -1000, 5000, 0>>[i]]]]

\* C9: for every loaded key the positive list holds exactly the rows with
\* score > 0, in descending order, the negative list exactly the rows with
\* score < 0, in ascending order; rows with score 0 are in neither; for
\* {A: 3, B: -1, C: 5, D: 0} the lists are [C, A] and [B].
C9_RankedLists ==
    /\ phase # "init" =>
        \A p \in Panels : \A key \in DOMAIN pos_scores[p] :
            LET rows == RowSet(FileRows(p, key))
                pl == pos_scores[p][key]
                nl == neg_scores[p][key]
            IN /\ RowSet(pl) = {r \in rows : r.score > 0}
               /\ Len(pl) = Cardinality({r \in rows : r.score > 0})
               /\ \A i, j \in 1..Len(pl) : i < j => pl[i].score >= pl[j].score
               /\ RowSet(nl) = {r \in rows : r.score < 0}
               /\ Len(nl) = Cardinality({r \in rows : r.score < 0})
               /\ \A i, j \in 1..Len(nl) : i < j => nl[i].score <= nl[j].score
    /\ \A ties \in {"stable", "reversed"} :
        LET got == GeneTable_read_scores(ExampleFile, ties) IN
        /\ got.pos[k1] = <<[gene |-> 3, score |-> 5000], [gene |-> 1, score |-> 3000]>>
        /\ got.neg[k1] = <<[gene |-> 2, score |-> -1000]>>

C9_Witness ==
    /\ phase = "running"
    /\ \E key \in DOMAIN pos_scores["global"] :
        LET rows == FileRows("global", key) IN
        /\ Len(pos_scores["global"][key]) > 1
        /\ Len(neg_scores["global"][key]) > 1
        /\ \E n \in 1..Len(rows) : rows[n].score = 0
        /\ pos_scores["global"][key][1].gene # (SelectSeq(rows, IsPos))[1].gene

\* C10: a dropdown change, page-forward or page-back of one panel leaves
\* the title, dropdown and table of every other panel unchanged.
C10_PanelsIndependent ==
    [][\A p \in Panels :
          (/\ ev'.panel = p
           /\ \/ \E value \in {"pos", "neg"} : DropdownChange(p, value)
              \/ ForwardClick(p)
              \/ BackClick(p))
          => \A q \in Panels \ {p} :
                /\ Title(q)' = Title(q)
                /\ Dropdown(q)' = Dropdown(q)
                /\ Table(q)' = Table(q)]_vars

C10_Witness ==
    /\ phase = "running"
    /\ ev = Event("forward", "tissue")
    /\ err = [p \in Panels |-> "none"]
    /\ pageStart("tissue") = 5
    /\ pageStart("global") = 0
    /\ Dropdown("global") = "neg"
    /\ Dropdown("tissue") = "pos"

\* C11: in every state of a running panel the key shown in its title is a
\* key of the panel's score store.
C11_KeyInStore ==
    phase = "running" =>
        \A p \in Panels : scores_key(p, Key(p)) \in DOMAIN pos_scores[p]

\* C12: after a timecourse click whose key is in the store of every panel,
\* every panel has that key as its selection and shows the page of that
\* key's list starting at rank 0.
C12_ClickReachesEveryPanel ==
    [][\A customdata \in ClickTissues \X ClickTopics :
          (/\ ev' = Event("click", "all")
           /\ TimecourseClick(customdata)
           /\ DataConsistent
           /\ Len(customdata[1]) = 1
           /\ \A p \in Panels : scores_key(p, customdata) \in DOMAIN pos_scores[p])
          => \A p \in Panels :
                /\ Title(p)' = get_title(p, customdata)
                /\ Key(p)' = customdata
                /\ pageStart(p)' = 0
                /\ FirstPageShown(p)']_vars

\* C13: construction leaves every panel with the default key ('BM', 'k1'),
\* the dropdown on 'pos' and the page that starts at rank 0 of the positive
\* list of the default key.
C13_InitialState ==
    ev.kind = "layout" =>
        /\ phase = "running"
        /\ \A p \in Panels :
            /\ Key(p) = <<BM, k1>>
            /\ Dropdown(p) = "pos"
            /\ pageStart(p) = 0
            /\ FirstPageShown(p)

\* the rank, gene and score cells of rendered rows
Scoring(rows) ==
    [n \in 1..Len(rows) |->
        [rank |-> rows[n].rank, gene |-> rows[n].gene, score |-> rows[n].score]]

\* the rank, gene and score cells of the ngenes entries of a list from rank start
PageOf(list, start) ==
    [n \in 1..ngenes |->
        [rank |-> start + n - 1,
         gene |-> list[start + n].gene,
         score |-> format_score(list[start + n].score)]]

\* the start ranks update_table can ask for in the current state
RequestedStarts(p) == {0, pageStart(p) + ngenes, pageStart(p) - ngenes}

OtherTissuesChanged(mat, tissue, m, d) ==
    [n \in 1..Len(mat) |->
        IF mat[n].tissue = tissue THEN mat[n]
        ELSE [mat[n] EXCEPT !.score = [c \in {k1, k2} |-> m * mat[n].score[c] + d]]]

\* the rows of the tissue score file with a tissue and a topic's score
RowsOfTissue(mat, key) ==
    {[tissue |-> mat[n].tissue, gene |-> mat[n].gene, score |-> mat[n].score[key[2]]] :
        n \in {i \in 1..Len(mat) : mat[i].tissue = key[1]}}

\* C15: the lists of the tissue panel for (tissue, topic) hold exactly the
\* rows of that tissue with a positive (negative) score, ranked among
\* themselves, and stay the same lists when the scores of the rows of the
\* other tissues change.
C15_TissueListsIndependent ==
    phase # "init" =>
        LET mat == read_csv(args, "tissue") IN
        \A key \in DOMAIN pos_scores["tissue"] :
            LET pl == pos_scores["tissue"][key]
                nl == neg_scores["tissue"][key]
            IN /\ RowSet(pl) = {r \in RowsOfTissue(mat, key) : r.score > 0}
               /\ RowSet(nl) = {r \in RowsOfTissue(mat, key) : r.score < 0}
               /\ Len(pl) = Cardinality(RowSet(pl))
               /\ Len(nl) = Cardinality(RowSet(nl))
               /\ \A i, j \in 1..Len(pl) : i < j => pl[i].score >= pl[j].score
               /\ \A i, j \in 1..Len(nl) : i < j => nl[i].score <= nl[j].score
               \* the stores are written by SetLayout only
               /\ ev.kind = "layout" =>
                    \A m \in {-1, 1} : \A d \in {-9, 7} :
                    \E ties \in {"stable", "reversed"} :
                        LET now == TissueGeneTable_read_scores(
                                       OtherTissuesChanged(mat, key[1], m, d), ties)
                        IN now.pos[key] = pl /\ now.neg[key] = nl

C15_Witness ==
    /\ phase = "running"
    /\ ev = Event("click", "all")
    /\ err["tissue"] = "none"
    /\ Key("tissue") = <<Sp, k2>>
    /\ Cardinality(unique_tissues(read_csv(args, "tissue"))) > 1
    /\ Len(pos_scores["tissue"][<<Sp, k2>>]) # Len(pos_scores["tissue"][<<BM, k2>>])
    /\ Len(pos_scores["tissue"][<<Sp, k2>>]) # Len(pos_scores["tissue"][<<LNax, k2>>])

\* the integer suffix of the n-th label of the series
Suffix(n) == to_int(Tail(str_series[n]))

\* C16: in the order _order_strings gives a series of labels, every label
\* has a position, and label x precedes label y exactly when the integer
\* suffix of x is smaller than that of y.
C16_OrderedBySuffix ==
    ev.kind = "order" =>
        \A i \in 1..Len(str_series) :
            /\ ordered.codes[i] # NaN
            /\ \A j \in 1..Len(str_series) :
                (ordered.codes[i] < ordered.codes[j]) <=> (Suffix(i) < Suffix(j))

\* the charts in the cells of a rendered row
Charts(row) == {row[cell] : cell \in DOMAIN row \ {"rank", "gene", "score"}}

\* C17 as stated: a row of the global panel carries the all-tissue chart
\* only, a row of the tissue panel the all-tissue chart and the chart of
\* the selection's tissue.
C17_OneOrTwoCharts ==
    phase = "running" =>
        /\ \A n \in 1..Len(Table("global")) :
            Charts(Table("global")[n]) =
                {[gene |-> Table("global")[n].gene, tissue |-> None]}
        /\ \A n \in 1..Len(Table("tissue")) :
            Cardinality(Charts(Table("tissue")[n])) = 2

\* C17 amended: in both panels every rendered row carries two charts of
\* its gene, the all-tissue one and one filtered to a tissue, the same
\* tissue in all rows of the table; it is the tissue of the panel's key
\* whenever the panel's last render did not raise.
C17_TwoChartsInBothPanels ==
    phase = "running" =>
        \A p \in Panels : \A n \in 1..Len(Table(p)) :
            LET row == Table(p)[n]
                ChartTissues(r) == {chart.tissue : chart \in Charts(r)}
            IN /\ Cardinality(Charts(row)) = 2
               /\ \A chart \in Charts(row) : chart.gene = row.gene
               /\ None \in ChartTissues(row)
               /\ ChartTissues(row) = ChartTissues(Table(p)[1])
               /\ err[p] = "none" => Key(p)[1] \in ChartTissues(row)

C17_Witness ==
    /\ phase = "running"
    /\ ev = Event("click", "all")
    /\ err = [p \in Panels |-> "none"]
    /\ Key("global") = <<Sp, k1>>
    /\ Charts(Table("global")[1]) =
            {[gene |-> Table("global")[1].gene, tissue |-> None],
             [gene |-> Table("global")[1].gene, tissue |-> Sp]}

\* C18: when the list of the panel's key and sign has N >= ngenes entries
\* (and the charts of its first page can be drawn), the table has exactly
\* ngenes rows, their ranks are pageStart..pageStart + ngenes - 1, all
\* within 0..N-1, and the row of rank r shows the gene and the score of
\* entry r of that list.
C18_FullPageOfTheList ==
    phase = "running" =>
        \A p \in Panels :
            (KeyValid(p) /\ N(p) >= ngenes /\ ChartsOk(p, 0, ngenes - 1)) =>
                /\ Len(Table(p)) = ngenes
                /\ Ranks(p) = [n \in 1..ngenes |-> pageStart(p) + n - 1]
                /\ pageStart(p) >= 0
                /\ pageStart(p) + ngenes - 1 < N(p)
                /\ Scoring(Table(p)) = PageOf(RankedList(p), pageStart(p))

C18_Witness ==
    \E p \in Panels :
        /\ phase = "running"
        /\ ev = Event("forward", p)
        /\ err[p] = "none"
        /\ ~Pos(p)
        /\ KeyValid(p) /\ N(p) >= ngenes /\ ChartsOk(p, 0, ngenes - 1)
        /\ pageStart(p) > 0
        /\ Key(p) # <<BM, k1>>

\* C19: the rows of a panel's table are always rows of the ranked list of
\* the key shown in its title and the sign of its dropdown.
C19_TableMatchesTitle ==
    (phase = "running" /\ DataConsistent) =>
        \A p \in Panels :
            /\ KeyValid(p)
            /\ \A n \in 1..Len(Table(p)) :
                LET row == Table(p)[n] IN
                /\ row.rank < N(p)
                /\ RankedList(p)[row.rank + 1].gene = row.gene
                /\ format_score(RankedList(p)[row.rank + 1].score) = row.score

\* the list of the panel's key and sign fills a page and all its charts can
\* be drawn
PagingOk(p) == KeyValid(p) /\ N(p) >= ngenes /\ ChartsOk(p, 0, N(p) - 1)

\* C20: with N >= ngenes a page-forward on the last page (pageStart =
\* N - ngenes) and a page-back on the first page (pageStart = 0) render the
\* same page again, and a page-back from the last page gives pageStart =
\* max(0, N - 2 * ngenes).
C20_PagingStoresClampedPosition ==
    [][\A p \in Panels :
          /\ (ev' = Event("forward", p) /\ ForwardClick(p)
              /\ PagingOk(p) /\ pageStart(p) = N(p) - ngenes)
                => (err'[p] = "none" /\ Table(p)' = Table(p))
          /\ (ev' = Event("back", p) /\ BackClick(p)
              /\ PagingOk(p) /\ pageStart(p) = 0)
                => (err'[p] = "none" /\ Table(p)' = Table(p))
          /\ (ev' = Event("back", p) /\ BackClick(p)
              /\ PagingOk(p) /\ pageStart(p) = N(p) - ngenes)
                => (err'[p] = "none"
                    /\ pageStart(p)' = Max(0, N(p) - 2 * ngenes))]_vars

C20_Witness ==
    \E p \in Panels :
        /\ phase = "running"
        /\ ev = Event("back", p)
        /\ err[p] = "none"
        /\ PagingOk(p)
        /\ N(p) > 2 * ngenes
        /\ pageStart(p) = N(p) - 2 * ngenes

\* C21: parsing the title built for a clicked (tissue, topic) gives that
\* (tissue, topic) back, in both panels: after a timecourse click the key
\* the next event reads from the title is the clicked key.
C21_TitleRoundTrip ==
    [][\A customdata \in ClickTissues \X ClickTopics :
          (ev' = Event("click", "all") /\ TimecourseClick(customdata))
          => \A p \in Panels :
                /\ tissue_topic_from_title(get_title(p, customdata)) = customdata
                /\ Key(p)' = customdata]_vars

====
